---- MODULE Spec2Model ----
(***************************************************************************)
(* The analyze-sentiment edge function of feedback-findr                   *)
(* (src/unnamed/part_000) running against the two tables of the migration  *)
(* (src/unnamed/part_001): public.feedback and the singleton row of        *)
(* public.credits.                                                         *)
(*                                                                         *)
(* Every request is served by one invocation of the async handler.  The    *)
(* handler awaits the store three times (select credits, insert feedback,  *)
(* update credits); between two awaits it runs alone, so one action is one *)
(* store operation followed by the handler's code up to its next await or  *)
(* its return.  Invocations interleave at the awaits.                      *)
(*                                                                         *)
(* Text is a sequence of one-character strings; confidence is counted in   *)
(* hundredths (0.7 is 70).  In IEEE doubles 0.6 + k * 0.1 is the double    *)
(* nearest to 0.7, 0.8, 0.9 for k = 1, 2, 3 and is at least 1.0 for every  *)
(* k >= 4, so min(0.95, 0.6 + k * 0.1) is exactly min(95, 60 + 10 * k)     *)
(* hundredths.  The CORS preflight branch (OPTIONS) reads and writes no    *)
(* state and is left out.                                                  *)
(***************************************************************************)
EXTENDS Integers, Sequences, FiniteSets, TLC

\* ------------------------------------------------------------ bounds

\* handler invocations that may be in flight at the same time
NProcs == 2
\* the clients send a request only while the rows of public.feedback and the
\* requests in flight together are fewer than this
MaxRows == 7
\* fragments concatenated into one feedback text of the classifier runs
MaxFragments == 3

Procs == 1..NProcs

\* ------------------------------------------------------------ text

UpperChars ==
  << "A","B","C","D","E","F","G","H","I","J","K","L","M",
     "N","O","P","Q","R","S","T","U","V","W","X","Y","Z" >>

LowerChars ==
  << "a","b","c","d","e","f","g","h","i","j","k","l","m",
     "n","o","p","q","r","s","t","u","v","w","x","y","z" >>

\* String.prototype.toLowerCase, one character
toLowerChar(c) ==
  IF \E i \in 1..Len(UpperChars) : UpperChars[i] = c
    THEN LowerChars[CHOOSE i \in 1..Len(UpperChars) : UpperChars[i] = c]
    ELSE c

\* String.prototype.toLowerCase
toLowerCase(text) == [i \in 1..Len(text) |-> toLowerChar(text[i])]

\* String.prototype.includes: word occurs in text as a substring
includes(text, word) ==
  \E i \in 0..(Len(text) - Len(word)) : SubSeq(text, i + 1, i + Len(word)) = word

positiveWords ==
  << <<"g","o","o","d">>,
     <<"g","r","e","a","t">>,
     <<"e","x","c","e","l","l","e","n","t">>,
     <<"a","m","a","z","i","n","g">>,
     <<"l","o","v","e">>,
     <<"a","w","e","s","o","m","e">>,
     <<"f","a","n","t","a","s","t","i","c">>,
     <<"w","o","n","d","e","r","f","u","l">>,
     <<"p","e","r","f","e","c","t">>,
     <<"b","e","s","t">>,
     <<"h","a","p","p","y">>,
     <<"s","a","t","i","s","f","i","e","d">>,
     <<"p","l","e","a","s","e","d">> >>

negativeWords ==
  << <<"b","a","d">>,
     <<"t","e","r","r","i","b","l","e">>,
     <<"a","w","f","u","l">>,
     <<"h","a","t","e">>,
     <<"w","o","r","s","t">>,
     <<"h","o","r","r","i","b","l","e">>,
     <<"d","i","s","a","p","p","o","i","n","t","i","n","g">>,
     <<"p","o","o","r">>,
     <<"a","n","g","r","y">>,
     <<"f","r","u","s","t","r","a","t","e","d">>,
     <<"u","p","s","e","t">> >>

\* words.forEach(word => { if (lowerText.includes(word)) score++ })
RECURSIVE forEachScore(_, _)
forEachScore(words, lowerText) ==
  IF words = << >> THEN 0
  ELSE (IF includes(lowerText, Head(words)) THEN 1 ELSE 0)
       + forEachScore(Tail(words), lowerText)

Min(a, b) == IF a < b THEN a ELSE b

\* faulty variant: the cap of 0.95 is left out
confidenceUncapped(score) == 60 + (score * 10)

\* Math.min(0.95, 0.6 + (score * 0.1)), in hundredths
confidence(score) == Min(95, 60 + (score * 10))

\* faulty variant: >= in place of >, a tie counts as positive
decideTiesPositive(positiveScore, negativeScore) ==
  IF positiveScore >= negativeScore
    THEN [sentiment |-> "positive", confidence |-> confidence(positiveScore)]
    ELSE [sentiment |-> "negative", confidence |-> confidence(negativeScore)]

\* the decision of analyzeSentiment on the two scores
decide(positiveScore, negativeScore) ==
  IF positiveScore > negativeScore
    THEN [sentiment |-> "positive", confidence |-> confidence(positiveScore)]
  ELSE IF negativeScore > positiveScore
    THEN [sentiment |-> "negative", confidence |-> confidence(negativeScore)]
  ELSE [sentiment |-> "neutral", confidence |-> 70]

analyzeSentiment(text) ==
  LET lowerText == toLowerCase(text)
      positiveScore == forEachScore(positiveWords, lowerText)
      negativeScore == forEachScore(negativeWords, lowerText)
  IN  decide(positiveScore, negativeScore)

\* ------------------------------------------------------------ requests

\* A request body as req.json() and the destructuring of feedback_text see it:
\* "malformed" is a body that is not JSON (req.json() throws), "undefined" a
\* JSON object without the key, "number" the truthy non-string 42, "string" a
\* string with its characters.
Body(type, chars) == [type |-> type, chars |-> chars]

\* !feedback_text is false
Truthy(v) == \/ v.type = "number"
             \/ v.type = "string" /\ v.chars # << >>

Fragments ==
  { <<"G","R","E","A","T"," ","a","n","d"," ","a","w","e","s","o","m","e">>,
    <<"G","o","o","d">>,
    <<"u","n","h","a","p","p","y">>,
    <<" ","b","a","d">>,
    <<"w","o","r","s","t",","," ","I"," ","H","A","T","E"," ","i","t">>,
    <<" ","o","k"," ">>,
    <<"u","p">>,
    <<"s","e","t">> }

\* the texts made of at most n fragments, the empty text among them
RECURSIVE TextsUpTo(_)
TextsUpTo(n) ==
  IF n = 0 THEN { << >> }
  ELSE LET shorter == TextsUpTo(n - 1)
       IN  shorter \cup { t \o f : t \in shorter, f \in Fragments }

\* what the clients of the classifier runs send
ClassifierBodies == { Body("string", t) : t \in TextsUpTo(MaxFragments) }

\* what the clients of the credit-gate runs send
HandlerBodies ==
  { Body("malformed", << >>), Body("undefined", << >>), Body("string", << >>),
    Body("number", << >>),
    Body("string", <<"G","o","o","d">>) }

\* ------------------------------------------------------------ state

VARIABLES
  credits,        \* the row of public.credits: credits_used, max_credits
  feedback,       \* the rows of public.feedback, in insertion order
  pc,             \* per invocation: "idle", "gate", "insert", "update"
  feedback_text,  \* per invocation: the destructured feedback_text
  creditsData,    \* per invocation: the row read at the gate
  analysis,       \* per invocation: analyzeSentiment's result
  feedbackData,   \* per invocation: the id of the inserted row
  resp,           \* the Response returned last, by any invocation
  logged,         \* what the invocation that returned last wrote with console.error
  everExhausted,  \* history: credits_used = max_credits held in some state so far
  raced           \* history: a gate read passed while another invocation was
                  \* between its own gate read and its counter write

vars == << credits, feedback, pc, feedback_text, creditsData, analysis,
           feedbackData, resp, logged, everExhausted, raced >>

NoBody == Body("none", << >>)
NoCredits == [credits_used |-> 0, max_credits |-> 0]
NoAnalysis == [sentiment |-> "", confidence |-> 0]
NoResponse ==
  [status |-> 0, error |-> "", id |-> 0, sentiment |-> "", confidence |-> 0,
   credits_remaining |-> 0]

ErrorResponse(status, error) ==
  [status |-> status, error |-> error, id |-> 0, sentiment |-> "",
   confidence |-> 0, credits_remaining |-> 0]

\* INSERT INTO public.credits (credits_used, max_credits) VALUES (0, 5)
InitialCredits == [credits_used |-> 0, max_credits |-> 5]

Init ==
  /\ credits = InitialCredits
  /\ feedback = << >>
  /\ pc = [p \in Procs |-> "idle"]
  /\ feedback_text = [p \in Procs |-> NoBody]
  /\ creditsData = [p \in Procs |-> NoCredits]
  /\ analysis = [p \in Procs |-> NoAnalysis]
  /\ feedbackData = [p \in Procs |-> 0]
  /\ resp = NoResponse
  /\ logged = ""
  /\ everExhausted = FALSE
  /\ raced = FALSE

\* ------------------------------------------------------------ the handler

\* the handler returns its response: the invocation ends and its locals go
Return(p, response, log) ==
  /\ pc' = [pc EXCEPT ![p] = "idle"]
  /\ resp' = response
  /\ logged' = log
  /\ feedback_text' = [feedback_text EXCEPT ![p] = NoBody]
  /\ creditsData' = [creditsData EXCEPT ![p] = NoCredits]
  /\ analysis' = [analysis EXCEPT ![p] = NoAnalysis]
  /\ feedbackData' = [feedbackData EXCEPT ![p] = 0]

\* catch (error): console.error('Error:', error), 500
Catch(p) == Return(p, ErrorResponse(500, "Internal server error"), "Error:")

\* a request arrives: req.json(), the check of feedback_text, createClient,
\* and the select of the credits row is sent
Receive(p, body) ==
  /\ pc[p] = "idle"
  /\ Len(feedback) + Cardinality({q \in Procs : pc[q] # "idle"}) < MaxRows
  /\ UNCHANGED << credits, feedback, everExhausted, raced >>
  /\ IF body.type = "malformed"
       THEN Catch(p)
     ELSE IF ~Truthy(body)
       THEN Return(p, ErrorResponse(400, "Feedback text is required"), "")
     ELSE /\ pc' = [pc EXCEPT ![p] = "gate"]
          /\ feedback_text' = [feedback_text EXCEPT ![p] = body]
          /\ UNCHANGED << creditsData, analysis, feedbackData, resp, logged >>

\* faulty variant: > in place of >=
CreditLimitReachedStrict(data) == data.credits_used > data.max_credits

\* creditsData.credits_used >= creditsData.max_credits
CreditLimitReached(data) == data.credits_used >= data.max_credits

\* another invocation is between its gate read and its counter write
OtherInFlight(p) == \E q \in Procs \ {p} : pc[q] \in {"insert", "update"}

\* the select of the credits row answers (ok) or fails; then the cap check,
\* analyzeSentiment, and the insert of the feedback row is sent
CheckCredits(p, ok) ==
  /\ pc[p] = "gate"
  /\ UNCHANGED << credits, feedback, everExhausted >>
  /\ IF ~ok
       THEN /\ Return(p, ErrorResponse(500, "Unable to check credits"), "")
            /\ UNCHANGED raced
     ELSE IF CreditLimitReached(credits)
       THEN /\ Return(p, ErrorResponse(429,
                 "Credit limit reached. You have used all 5 credits."), "")
            /\ UNCHANGED raced
     ELSE IF feedback_text[p].type # "string"
       THEN \* text.toLowerCase is not a function
            /\ Catch(p)
            /\ UNCHANGED raced
     ELSE /\ pc' = [pc EXCEPT ![p] = "insert"]
          /\ creditsData' = [creditsData EXCEPT ![p] = credits]
          /\ analysis' = [analysis EXCEPT ![p] = analyzeSentiment(feedback_text[p].chars)]
          /\ raced' = (raced \/ OtherInFlight(p))
          /\ UNCHANGED << feedback_text, feedbackData, resp, logged >>

\* faulty variant: the error of the insert is not looked at
feedbackErrorIgnored(ok) == FALSE

\* if (feedbackError)
feedbackError(ok) == ~ok

\* the row .insert({...}).select().single() stores and returns: the id is
\* generated and fresh, confidence_score is DECIMAL(3,2), which holds every
\* whole number of hundredths below 1000 as it is
NewFeedbackRow(p) ==
  [id |-> Len(feedback) + 1,
   feedback_text |-> feedback_text[p].chars,
   sentiment |-> analysis[p].sentiment,
   confidence_score |-> analysis[p].confidence]

\* the insert of the feedback row answers (ok: the row is stored) or fails
\* (no row is stored); then the error check, and the update of the credits
\* row is sent
StoreFeedback(p, ok) ==
  /\ pc[p] = "insert"
  /\ feedback' = IF ok THEN Append(feedback, NewFeedbackRow(p)) ELSE feedback
  /\ UNCHANGED << credits, everExhausted, raced >>
  /\ IF feedbackError(ok)
       THEN Return(p, ErrorResponse(500, "Failed to store feedback"), "")
       ELSE /\ pc' = [pc EXCEPT ![p] = "update"]
            /\ feedbackData' = [feedbackData EXCEPT ![p] = IF ok THEN Len(feedback) + 1 ELSE 0]
            /\ UNCHANGED << feedback_text, creditsData, analysis, resp, logged >>

\* faulty variant: the value read is written back
NoIncrement(data) == data.credits_used

\* credits_used: creditsData.credits_used + 1
NewCreditsUsed(data) == data.credits_used + 1

\* faulty variant: the credit just used is not counted
CreditsRemainingBeforeUse(data) == data.max_credits - data.credits_used

\* credits_remaining: creditsData.max_credits - (creditsData.credits_used + 1)
CreditsRemaining(data) == data.max_credits - (data.credits_used + 1)

\* faulty variant: a failed update is answered with a 500
SurfacedStatus(updateCreditsError) == IF updateCreditsError THEN 500 ELSE 200

\* the status of the response after the update of the credits row:
\* updateCreditsError is logged and the response is the same
StatusAfterUpdate(updateCreditsError) == 200

\* the update of the credits row answers (ok: credits_used is written) or
\* fails (nothing is written); then console.error on failure and the response
UpdateCredits(p, ok) ==
  /\ pc[p] = "update"
  /\ credits' = IF ok
                  THEN [credits EXCEPT !.credits_used = NewCreditsUsed(creditsData[p])]
                  ELSE credits
  /\ everExhausted' = (everExhausted \/ credits'.credits_used = credits'.max_credits)
  /\ UNCHANGED << feedback, raced >>
  /\ Return(p,
            [status |-> StatusAfterUpdate(~ok),
             error |-> "",
             id |-> feedbackData[p],
             sentiment |-> analysis[p].sentiment,
             confidence |-> analysis[p].confidence,
             credits_remaining |-> CreditsRemaining(creditsData[p])],
            IF ok THEN "" ELSE "Failed to update credits:")

\* ------------------------------------------------------------ specifications

\* any number of invocations interleave, every store operation may fail
Next ==
  \E p \in Procs :
    \/ \E body \in HandlerBodies : Receive(p, body)
    \/ \E ok \in BOOLEAN : CheckCredits(p, ok)
    \/ \E ok \in BOOLEAN : StoreFeedback(p, ok)
    \/ \E ok \in BOOLEAN : UpdateCredits(p, ok)

Spec == Init /\ [][Next]_vars

\* the bodies that carry a non-empty string
TextBodies == { b \in HandlerBodies : b.type = "string" /\ Truthy(b) }

\* invocations interleave, every request carries a text, the store never fails
RaceNext ==
  \E p \in Procs :
    \/ \E body \in TextBodies : Receive(p, body)
    \/ CheckCredits(p, TRUE)
    \/ StoreFeedback(p, TRUE)
    \/ UpdateCredits(p, TRUE)

RaceSpec == Init /\ [][RaceNext]_vars

\* no invocation is in flight
NoneInFlight == \A q \in Procs : pc[q] = "idle"

\* requests are served strictly one at a time, the store never fails
SeqNext ==
  \E p \in Procs :
    \/ \E body \in HandlerBodies : NoneInFlight /\ Receive(p, body)
    \/ CheckCredits(p, TRUE)
    \/ StoreFeedback(p, TRUE)
    \/ UpdateCredits(p, TRUE)

SeqSpec == Init /\ [][SeqNext]_vars

\* the first request, with any text of the classifier runs, every store operation
\* may fail
ClassifierNext ==
  \/ \E body \in ClassifierBodies : resp = NoResponse /\ Receive(1, body)
  \/ \E ok \in BOOLEAN : CheckCredits(1, ok)
  \/ \E ok \in BOOLEAN : StoreFeedback(1, ok)
  \/ \E ok \in BOOLEAN : UpdateCredits(1, ok)

ClassifierSpec == Init /\ [][ClassifierNext]_vars

\* ------------------------------------------------------------ properties

\* invocation p returns its response in this step
Returns(p) == pc[p] # "idle" /\ pc'[p] = "idle"

\* invocation p gets the answer of its gate read in this step
ReadsGate(p) == pc[p] = "gate" /\ pc'[p] # "gate"

\* C1: once credits_used = max_credits has held, every invocation whose gate
\* read comes later is rejected with status 429 and adds no feedback row.
C1_RejectedOnceExhausted ==
  [][\A p \in Procs :
       (everExhausted /\ ReadsGate(p)) =>
         (Returns(p) /\ resp'.status = 429 /\ feedback' = feedback)]_vars

\* C2: in every reachable state 0 <= credits_used <= max_credits, and
\* max_credits is the 5 of the initial row.
C2_CounterWithinCap ==
  /\ 0 <= credits.credits_used
  /\ credits.credits_used <= credits.max_credits
  /\ credits.max_credits = InitialCredits.max_credits

\* C2's case: interleaved invocations overshot the rows while the counter
\* stands at the cap
C2_Witness ==
  /\ credits.credits_used = credits.max_credits
  /\ raced
  /\ Len(feedback) > credits.max_credits

\* C3: every step leaves credits_used unchanged or increases it by exactly 1.
C3_NeverDecremented ==
  [][\/ credits'.credits_used = credits.credits_used
     \/ credits'.credits_used = credits.credits_used + 1]_vars

\* C4: more feedback rows than max_credits can come to exist, and when the
\* store never fails they do so only after a gate read passed while another
\* invocation was between its own gate read and its counter write.
C4_OvershootOnlyByRace == Len(feedback) > credits.max_credits => raced

\* C4's case: more rows were stored than there are credits
C4_Overshoot == Len(feedback) > credits.max_credits

\* the keywords of a list that occur in the lower-cased text, as a set
PresentKeywords(words, text) ==
  LET lower == toLowerCase(text)
  IN  { k \in 1..Len(words) :
          \E i \in 1..(Len(lower) - Len(words[k]) + 1) :
            \A j \in 1..Len(words[k]) : lower[i + j - 1] = words[k][j] }

KeywordSet(words, text) == { words[k] : k \in PresentKeywords(words, text) }

P(text) == Cardinality(KeywordSet(positiveWords, text))
N(text) == Cardinality(KeywordSet(negativeWords, text))

ExpectedSentiment(text) ==
  IF P(text) > N(text) THEN "positive"
  ELSE IF N(text) > P(text) THEN "negative"
  ELSE "neutral"

ExpectedConfidence(text) ==
  IF P(text) = N(text) THEN 70
  ELSE LET k == IF P(text) > N(text) THEN P(text) ELSE N(text)
       IN  IF 60 + 10 * k < 95 THEN 60 + 10 * k ELSE 95

\* C5: with p and n the numbers of distinct positive and negative keywords
\* present in the lower-cased text, the sentiment computed for a request and
\* stored in its row is positive when p > n, negative when n > p and neutral
\* when p = n; a text with positive keywords only is positive.
C5_SentimentByCounts ==
  /\ \A q \in Procs :
       pc[q] \in {"insert", "update"} =>
         /\ analysis[q].sentiment = ExpectedSentiment(feedback_text[q].chars)
         /\ (P(feedback_text[q].chars) >= 1 /\ N(feedback_text[q].chars) = 0)
              => analysis[q].sentiment = "positive"
  /\ \A r \in 1..Len(feedback) :
       feedback[r].sentiment = ExpectedSentiment(feedback[r].feedback_text)

\* C5's case: a stored text whose only keyword is positive and written with
\* a capital letter
C5_Witness ==
  \E r \in 1..Len(feedback) :
    /\ P(feedback[r].feedback_text) = 1
    /\ N(feedback[r].feedback_text) = 0
    /\ toLowerCase(feedback[r].feedback_text) # feedback[r].feedback_text
    /\ feedback[r].sentiment = "positive"

\* C6: the confidence is 70 hundredths for a neutral result and
\* min(95, 60 + 10 * k) for a decided one, k the winning side's count; every
\* stored row and every 200 response has a confidence from 70 to 95.
C6_ConfidenceBounds ==
  /\ \A q \in Procs :
       pc[q] \in {"insert", "update"} =>
         analysis[q].confidence = ExpectedConfidence(feedback_text[q].chars)
  /\ \A r \in 1..Len(feedback) :
       /\ feedback[r].confidence_score = ExpectedConfidence(feedback[r].feedback_text)
       /\ 70 <= feedback[r].confidence_score
       /\ feedback[r].confidence_score <= 95
  /\ resp.status = 200 =>
       /\ 70 <= resp.confidence
       /\ resp.confidence <= 95
       /\ resp.id \in 1..Len(feedback) =>
            resp.confidence = ExpectedConfidence(feedback[resp.id].feedback_text)

\* C6's case: a 200 response for a text with four or more keywords on the
\* winning side, where the cap applies
C6_Witness ==
  /\ resp.status = 200
  /\ resp.id \in 1..Len(feedback)
  /\ P(feedback[resp.id].feedback_text) >= 4
  /\ N(feedback[resp.id].feedback_text) = 0
  /\ resp.confidence = 95

\* C7: a request answered with an error leaves the store as it is, and a 200
\* is returned only after the request's feedback row was inserted: rows are
\* inserted only by the step that takes an invocation on to its counter
\* update, the counter is written only by the step that returns a 200, an
\* invocation that got that far returns a 200, and the row a 200 names is
\* stored.
C7_ErrorsLeaveStore ==
  [][/\ feedback' # feedback =>
          \E p \in Procs : pc[p] = "insert" /\ pc'[p] = "update"
     /\ credits' # credits =>
          \E p \in Procs : pc[p] = "update" /\ Returns(p) /\ resp'.status = 200
     /\ \A p \in Procs :
          /\ (pc[p] = "update" /\ Returns(p)) => resp'.status = 200
          /\ (pc[p] # "update" /\ Returns(p)) =>
               /\ resp'.status \in {400, 429, 500}
               /\ feedback' = feedback
               /\ credits' = credits
     /\ (resp' # resp /\ resp'.status \in {400, 429, 500}) =>
          (feedback' = feedback /\ credits' = credits)
     /\ resp'.status = 200 =>
          /\ resp'.id \in 1..Len(feedback')
          /\ feedback'[resp'.id].id = resp'.id]_vars

\* C7's case: an insert failed after rows were stored and credits used
C7_Witness ==
  /\ resp.status = 500
  /\ resp.error = "Failed to store feedback"
  /\ Len(feedback) >= 1
  /\ credits.credits_used >= 1

\* C8: when the counter write fails after the row was inserted, the response
\* is still a 200 with the row's id, the row stays stored and credits_used
\* keeps its value.
C8_UpdateFailureTolerated ==
  [][\A p \in Procs :
       (pc[p] = "update" /\ Returns(p) /\ logged' = "Failed to update credits:") =>
         /\ resp'.status = 200
         /\ resp'.error = ""
         /\ resp'.id = feedbackData[p]
         /\ resp'.id \in 1..Len(feedback')
         /\ feedback'[resp'.id].id = resp'.id
         /\ feedback' = feedback
         /\ credits'.credits_used = credits.credits_used]_vars

\* C8's case: a 200 was returned although the counter write failed, and the
\* store holds more rows than credits used
C8_Witness ==
  /\ logged = "Failed to update credits:"
  /\ resp.status = 200
  /\ Len(feedback) > credits.credits_used

\* C9 as stated: when a 200 is returned, credits_remaining is max_credits
\* minus the credits_used the store holds at that moment, and not negative.
C9_RemainingMatchesStore ==
  [][\A p \in Procs :
       (pc[p] = "update" /\ Returns(p)) =>
         /\ resp'.credits_remaining = credits'.max_credits - credits'.credits_used
         /\ resp'.credits_remaining >= 0]_vars

\* C9 amended: the credits_remaining of a 200 is max_credits minus one more
\* than the credits_used read at the gate, is not negative, and is
\* max_credits minus the stored credits_used at the moment the invocation's
\* counter write takes effect, when that write succeeds.
C9_RemainingFromGateRead ==
  [][\A p \in Procs :
       (pc[p] = "update" /\ Returns(p)) =>
         /\ resp'.credits_remaining
              = creditsData[p].max_credits - (creditsData[p].credits_used + 1)
         /\ resp'.credits_remaining >= 0
         /\ logged' = "" =>
              resp'.credits_remaining = credits'.max_credits - credits'.credits_used]_vars

\* C9's case: the last credit was written and a 200 reports none remaining
C9_Witness ==
  /\ resp.status = 200
  /\ logged = ""
  /\ resp.credits_remaining = 0
  /\ credits.credits_used = credits.max_credits

\* C10: when requests are served one at a time and the store never fails,
\* between requests the number of feedback rows equals credits_used and is
\* at most max_credits.
C10_RowsEqualCredits ==
  NoneInFlight =>
    /\ Len(feedback) = credits.credits_used
    /\ Len(feedback) <= credits.max_credits

\* C10's case: all credits are used and a further request was rejected
C10_Witness ==
  /\ NoneInFlight
  /\ Len(feedback) = credits.max_credits
  /\ resp.status = 429

====
